---- MODULE Spec2Model ----
(***************************************************************************)
(* EdgeWARN cell detection: the gate mapper and the region growth of       *)
(* GateMapper (core/process/detect/tools/gatemapper.py), the cell tracker  *)
(* StormCellTracker.update_cells (core/process/detect/track.py) and the    *)
(* history append of CellDataSaver (core/process/detect/tools/save.py),    *)
(* as they are chained by core/process/detect/main.py.                     *)
(*                                                                         *)
(* The specifications share the variables:                                 *)
(*   MapSpec    map_gates_to_polygons over a list of candidate regions     *)
(*   GrowSpec   expand_gates over a mapped grid and a reflectivity grid    *)
(*   GrowFair   expand_gates after a mapping of at most one region, with   *)
(*              weak fairness (the loop is a running function: it takes    *)
(*              its next step)                                             *)
(*   TrackSpec  successive dual-frame runs of main() over the cell record  *)
(*              list: the JSON output is readable whenever it exists, and  *)
(*              StormVectorCalculator (tools/vecmath.py, not part of the   *)
(*              sources) is taken to leave the records as they are         *)
(*   UpdateSpec update_cells called on its own, also with an empty new set *)
(*              or a new record that has no id                             *)
(*   DetectSpec one dual-frame run of main() whose new scan is a raster:   *)
(*              expand_gates, draw_bbox, create_entry, then tracking, the  *)
(*              history append and the save; centroids are kept in         *)
(*              hundredths of a degree                                     *)
(*   PipeSpec   successive runs of pipeline() (run.py) on a fresh          *)
(*              installation: download_all_files with one worker per       *)
(*              source, then the selection of the files and main() of the  *)
(*              detection module as one step; integration.main is left out *)
(*   CommonSpec one call of latest_common_minute_1h over remote            *)
(*              directories that hold a file per minute over some span;    *)
(*              the hour is scaled to Hour minutes                         *)
(*   SchedSpec  the polling loop of main() (run.py) over remote            *)
(*              directories that only grow                                 *)
(***************************************************************************)
EXTENDS Integers, Sequences, FiniteSets, TLC

\* ---------------------------------------------------------------- bounds
NumRows == 2
NumCols == 2
MaxFeatures == 2
SmallMaxIterations == 1
MaxFrames == 3
\* pipeline runs, modifiers polled, minutes of the look-back hour, minutes the
\* scheduler is followed for, pipelines it spawns
MaxRuns == 3
NumModifiers == 2
Hour == 12
MaxNow == 3
MaxSpawns == 3

\* ------------------------------------------------------ program constants
Threshold == 40
DefaultMaxIterations == 100
FullCircle == 360
NaN == -1
None == -2
MaxEntries == 10

VARIABLES
    pc,              \* position of the detection pass
    ps_ds,           \* GateMapper.ps_ds['features']: candidate regions, rewritten in place
    mapped_grid,     \* mapped_ds['PolygonID']
    refl_grid,       \* radar_ds['unknown']
    polygon_grid,    \* the working copy of expand_gates
    max_iterations,  \* parameter of expand_gates
    iteration,       \* iterations of the for loop completed so far
    iter_start,      \* polygon_grid as it was when the latest iteration began
    log,             \* the message expand_gates printed
    lon_origin,      \* radar_ds['longitude'][0] of the raster create_entry reads
    tpc,             \* position of the tracking pass
    frame,           \* number of radar frames detected so far
    json_output,     \* the persisted Cell Record set (absent before the first save)
    entries_old,     \* main: entries_old
    entries_new,     \* main: entries_new
    entries,         \* main: entries
    pre_old,         \* entries_old as it was before update_cells ran
    pre_hist,        \* the time series of entries as they were before append_storm_history ran
    last_absent,     \* per cell ID, the latest frame whose detections lacked it (0: none yet)
    ppc,             \* position of a pipeline run
    dt,              \* pipeline(log_queue, dt): the timestamp the run was spawned for
    worker,          \* per source, the state of its process_modifier task
    dirs,            \* per source, its download directory: the files by modification time
    json_before,     \* the persisted Cell Record set as it was when the run was spawned
    plog,            \* the last message pipeline() put on its log queue
    spc,             \* position of the scheduler
    now,             \* the current minute
    remote,          \* per modifier, the minutes of the files in its remote directory
    latest_common,   \* main: latest_common
    last_processed,  \* main: last_processed
    spawned          \* the timestamps main() has spawned a pipeline for, in order

dvars == <<pc, ps_ds, mapped_grid, refl_grid, polygon_grid, max_iterations,
           iteration, iter_start, log, lon_origin>>
tvars == <<tpc, frame, json_output, entries_old, entries_new, entries, pre_old, pre_hist,
           last_absent>>
vars == <<pc, ps_ds, mapped_grid, refl_grid, polygon_grid, max_iterations,
          iteration, iter_start, log, lon_origin,
          tpc, frame, json_output, entries_old, entries_new, entries, pre_old, pre_hist,
          last_absent,
          ppc, dt, worker, dirs, json_before, plog,
          spc, now, remote, latest_common, last_processed, spawned>>
pvars == <<ppc, dt, worker, dirs, json_before, plog>>
svars == <<spc, now, remote, latest_common, last_processed, spawned>>
hvars == <<pvars, svars>>

Min2(a, b) == IF a <= b THEN a ELSE b
Max2(a, b) == IF a >= b THEN a ELSE b
SetMin(S) == CHOOSE x \in S : \A y \in S : x <= y
SetMax(S) == CHOOSE x \in S : \A y \in S : x >= y

\* ------------------------------------------------------------ the raster
Rows == 0..(NumRows - 1)
Cols == 0..(NumCols - 1)
Gates == Rows \X Cols
\* radar_ds['latitude'] / ['longitude']: one degree per gate, longitudes in 0..360
Lats(i) == i + 1
Lons(j) == j + 1
\* Point(lon_grid[i, j], lat_grid[i, j])
GatePoint(g) == <<Lons(g[2]), Lats(g[1])>>
ZeroGrid == [g \in Gates |-> 0]

\* ----------------------------------------------------- candidate regions
RegionIDs == {1, 2}
Rect(x0, y0, x1, y1) == <<<<x0, y0>>, <<x1, y0>>, <<x1, y1>>, <<x0, y1>>, <<x0, y0>>>>
\* rings of (lon, lat) vertices, some with negative (west) longitudes
Rings == { Rect(0, 0, 2, 2), Rect(1, 1, 3, 3), Rect(0, 0, 3, 3),
           Rect(-359, 0, -357, 3), Rect(-1, 0, 2, 3) }
Features == [ID : RegionIDs, ring : Rings]
FeatureLists == UNION { [1..n -> Features] : n \in 0..MaxFeatures }

\* a conversion that shifts every vertex, west or not
NormalizeRingAlways(ring) ==
    [k \in 1..Len(ring) |-> <<ring[k][1] + FullCircle, ring[k][2]>>]
\* ring[i] = (lon + 360, lat) when lon < 0
NormalizeRing(ring) ==
    [k \in 1..Len(ring) |->
        IF ring[k][1] < 0 THEN <<ring[k][1] + FullCircle, ring[k][2]>> ELSE ring[k]]
NormalizeFeatures(fs) ==
    [k \in 1..Len(fs) |-> [ID |-> fs[k].ID, ring |-> NormalizeRing(fs[k].ring)]]

\* shapely: polygon.contains(point) is true for points of the interior only
Cross(a, b, p) == (b[1] - a[1]) * (p[2] - a[2]) - (b[2] - a[2]) * (p[1] - a[1])
OnSegment(a, b, p) ==
    /\ Cross(a, b, p) = 0
    /\ Min2(a[1], b[1]) <= p[1] /\ p[1] <= Max2(a[1], b[1])
    /\ Min2(a[2], b[2]) <= p[2] /\ p[2] <= Max2(a[2], b[2])
EdgeCrosses(a, b, p) ==
    /\ (a[2] > p[2]) # (b[2] > p[2])
    /\ LET dy == b[2] - a[2]
           lhs == (p[1] - a[1]) * dy
           rhs == (b[1] - a[1]) * (p[2] - a[2])
       IN IF dy > 0 THEN lhs < rhs ELSE lhs > rhs
PolygonContains(ring, p) ==
    LET E == 1..(Len(ring) - 1) IN
    /\ \A k \in E : ~OnSegment(ring[k], ring[k + 1], p)
    /\ Cardinality({k \in E : EdgeCrosses(ring[k], ring[k + 1], p)}) % 2 = 1

\* a mapper that lets a later region overwrite an earlier one
AssignPolygonOverwrite(grid, f) ==
    [g \in Gates |-> IF PolygonContains(f.ring, GatePoint(g)) THEN f.ID ELSE grid[g]]
\* the two inner loops of map_gates_to_polygons for one feature
AssignPolygon(grid, f) ==
    [g \in Gates |->
        IF grid[g] = 0 /\ PolygonContains(f.ring, GatePoint(g)) THEN f.ID ELSE grid[g]]
RECURSIVE MapFeatures(_, _, _)
MapFeatures(fs, k, grid) ==
    IF k > Len(fs) THEN grid ELSE MapFeatures(fs, k + 1, AssignPolygon(grid, fs[k]))
\* the PolygonID grid map_gates_to_polygons returns for the features fs
MapGrid(fs) == MapFeatures(NormalizeFeatures(fs), 1, ZeroGrid)

\* ----------------------------------------------------------- region growth
\* a comparison that lets a gate without value pass
GeqNaNPasses(x, t) == x = NaN \/ x >= t
\* refl_grid >= self.refl_threshold; a comparison with NaN is False
Geq(x, t) == x # NaN /\ x >= t
MaskFlipped(refl) == {g \in Gates : refl[g] # NaN /\ refl[g] <= Threshold}
Mask(refl) == {g \in Gates : Geq(refl[g], Threshold)}
Structure == {<<-1, 0>>, <<0, -1>>, <<0, 0>>, <<0, 1>>, <<1, 0>>}
\* a dilation along the rows only
BinaryDilationRows(S) ==
    {g \in Gates : \E d \in {<<0, -1>>, <<0, 0>>, <<0, 1>>} : <<g[1] + d[1], g[2] + d[2]>> \in S}
\* binary_dilation(S, structure=structure)
BinaryDilation(S) ==
    {g \in Gates : \E d \in Structure : <<g[1] + d[1], g[2] + d[2]>> \in S}
Occupied(grid) == {g \in Gates : grid[g] > 0}
Candidates(grid, refl) ==
    (BinaryDilation(Occupied(grid)) \ Occupied(grid)) \cap Mask(refl)
UniqueIds(grid) == {grid[g] : g \in Occupied(grid)}
PolyMask(grid, poly_id) == {g \in Gates : grid[g] = poly_id}
\* growth that forgets the non-overwrite guards
NewPixelsOverwrite(grid, refl, poly_id) ==
    BinaryDilation(PolyMask(grid, poly_id)) \cap Mask(refl)
\* growth that gives a region the whole frontier, not its own
NewPixelsAnyFrontier(grid, refl, poly_id) ==
    Candidates(grid, refl) \cap PolyMask(grid, 0)
NewPixels(grid, refl, poly_id) ==
    (BinaryDilation(PolyMask(grid, poly_id)) \cap Candidates(grid, refl))
        \cap PolyMask(grid, 0)
\* a loop over the regions from the largest ID down
RECURSIVE AssignIdsDescending(_, _, _, _)
AssignIdsDescending(grid, refl, ids, acc) ==
    IF ids = {} THEN acc
    ELSE LET poly_id == SetMax(ids)
             px == NewPixels(grid, refl, poly_id)
         IN AssignIdsDescending(grid, refl, ids \ {poly_id},
                                [g \in Gates |-> IF g \in px THEN poly_id ELSE acc[g]])
\* the loop over unique_ids (np.unique: ascending), each writing new_assignments
RECURSIVE AssignIds(_, _, _, _)
AssignIds(grid, refl, ids, acc) ==
    IF ids = {} THEN acc
    ELSE LET poly_id == SetMin(ids)
             px == NewPixels(grid, refl, poly_id)
         IN AssignIds(grid, refl, ids \ {poly_id},
                      [g \in Gates |-> IF g \in px THEN poly_id ELSE acc[g]])
NewAssignments(grid, refl) == AssignIds(grid, refl, UniqueIds(grid), ZeroGrid)
\* an assignment through the mask of the gates already owned
ApplyAssignmentsOccupied(grid, na) ==
    [g \in Gates |-> IF grid[g] > 0 /\ na[g] > 0 THEN na[g] ELSE grid[g]]
\* polygon_grid[new_assignments > 0] = new_assignments[new_assignments > 0]
ApplyAssignments(grid, na) == [g \in Gates |-> IF na[g] > 0 THEN na[g] ELSE grid[g]]

ReflValues == {Threshold - 1, Threshold}
ReflGrids == [Gates -> ReflValues]
UniformReflGrids == {[g \in Gates |-> v] : v \in ReflValues}
MaxIterChoices == {SmallMaxIterations, DefaultMaxIterations}
MappedGrids == {MapGrid(fs) : fs \in FeatureLists}
SingleRegionGrids == {MapGrid(fs) : fs \in {f \in FeatureLists : Len(f) <= 1}}

\* ProbSevere IDs of the cells that may be detected in a frame
CellIDs == {5, 7}
\* the sources whose download directories pipeline() reads
Sources == {"composite", "probsevere", "preciptyp"}
\* the modifiers handed to latest_common_minute_1h, by position
Modifiers == 1..NumModifiers
\* the pipeline variables of a specification that runs no pipeline
PipeIdle ==
    /\ ppc = "none" /\ dt = 0 /\ worker = [s \in Sources |-> "none"]
    /\ dirs = [s \in Sources |-> [exists |-> FALSE, files |-> <<>>]]
    /\ json_before = <<"absent">> /\ plog = "none"
\* the scheduler variables of a specification that does not poll
SchedIdle ==
    /\ spc = "none" /\ now = 0 /\ remote = [m \in Modifiers |-> {}]
    /\ latest_common = None /\ last_processed = None /\ spawned = <<>>
HostIdle == PipeIdle /\ SchedIdle
\* the tracking variables of a specification that does not track
TrackIdle ==
    /\ tpc = "idle" /\ frame = 0 /\ json_output = <<"absent">>
    /\ entries_old = <<>> /\ entries_new = <<>> /\ entries = <<>>
    /\ pre_old = <<>> /\ pre_hist = <<>>
    /\ last_absent = [n \in CellIDs |-> 0]
\* the detection variables of a specification that does not detect
DetectIdle ==
    /\ pc = "idle" /\ ps_ds = <<>> /\ mapped_grid = ZeroGrid /\ refl_grid = ZeroGrid
    /\ polygon_grid = ZeroGrid /\ max_iterations = 0 /\ iteration = 0
    /\ iter_start = ZeroGrid /\ log = "none"
    /\ lon_origin = Lons(0)

\* GateMapper(radar_ds, ps_ds): the mapper constructed over a list of regions
MapInit ==
    /\ pc = "constructed"
    /\ ps_ds \in FeatureLists
    /\ mapped_grid = ZeroGrid /\ refl_grid = ZeroGrid /\ polygon_grid = ZeroGrid
    /\ max_iterations = 0 /\ iteration = 0 /\ iter_start = ZeroGrid /\ log = "none"
    /\ lon_origin = Lons(0)
    /\ TrackIdle
    /\ HostIdle

MapGatesToPolygons ==
    /\ pc = "constructed"
    /\ ps_ds' = NormalizeFeatures(ps_ds)
    /\ mapped_grid' = MapGrid(ps_ds)
    /\ pc' = "mapped"
    /\ UNCHANGED <<refl_grid, polygon_grid, max_iterations, iteration, iter_start, log>>
    /\ UNCHANGED <<lon_origin, tvars, hvars>>

\* a second call of map_gates_to_polygons on the same mapper: the regions are the
\* ones the first call rewrote
MapGatesToPolygonsAgain ==
    /\ pc = "mapped"
    /\ ps_ds' = NormalizeFeatures(ps_ds)
    /\ mapped_grid' = MapGrid(ps_ds)
    /\ pc' = "remapped"
    /\ UNCHANGED <<refl_grid, polygon_grid, max_iterations, iteration, iter_start, log>>
    /\ UNCHANGED <<lon_origin, tvars, hvars>>

MapNext == MapGatesToPolygons \/ MapGatesToPolygonsAgain
MapSpec == MapInit /\ [][MapNext]_vars

\* expand_gates(mapped_ds, max_iterations) entered with one of the mapped grids and
\* one of the reflectivity grids: polygon_grid is a copy of the mapped grid and the
\* loop has not run yet
GrowStart(grids, refls) ==
    /\ pc = "loop"
    /\ ps_ds = <<>>
    /\ mapped_grid \in grids
    /\ polygon_grid = mapped_grid
    /\ iter_start = mapped_grid
    /\ refl_grid \in refls
    /\ max_iterations \in MaxIterChoices
    /\ iteration = 0
    /\ log = "none"
    /\ lon_origin = Lons(0)
    /\ TrackIdle
    /\ HostIdle
GrowInit == GrowStart(MappedGrids, ReflGrids)
\* the same entry, after a mapping of at most one candidate region over any
\* reflectivity grid, or after any mapping over a uniform reflectivity grid
GrowFairInit ==
    \/ GrowStart(SingleRegionGrids, ReflGrids)
    \/ GrowStart(MappedGrids, UniformReflGrids)

\* one iteration that finds candidates: all assignments applied at its end
Iterate ==
    /\ pc = "loop"
    /\ iteration < max_iterations
    /\ Candidates(polygon_grid, refl_grid) # {}
    /\ iter_start' = polygon_grid
    /\ polygon_grid' = ApplyAssignments(polygon_grid, NewAssignments(polygon_grid, refl_grid))
    /\ iteration' = iteration + 1
    /\ UNCHANGED <<pc, ps_ds, mapped_grid, refl_grid, max_iterations, log>>
    /\ UNCHANGED <<lon_origin, tvars, hvars>>

\* the iteration that finds no candidate: break, and return
Converge ==
    /\ pc = "loop"
    /\ iteration < max_iterations
    /\ Candidates(polygon_grid, refl_grid) = {}
    /\ pc' = "returned"
    /\ log' = "completed"
    /\ UNCHANGED <<ps_ds, mapped_grid, refl_grid, polygon_grid, max_iterations,
                   iteration, iter_start>>
    /\ UNCHANGED <<lon_origin, tvars, hvars>>

\* a loop that treats the exhausted iteration budget as an error
ReachCapRaises ==
    /\ pc = "loop"
    /\ iteration = max_iterations
    /\ pc' = "raised"
    /\ log' = "max_iterations"
    /\ UNCHANGED <<ps_ds, mapped_grid, refl_grid, polygon_grid, max_iterations,
                   iteration, iter_start>>
    /\ UNCHANGED <<lon_origin, tvars, hvars>>
\* range(max_iterations) exhausted: the else branch of the for loop, and return
ReachCap ==
    /\ pc = "loop"
    /\ iteration = max_iterations
    /\ pc' = "returned"
    /\ log' = "max_iterations"
    /\ UNCHANGED <<ps_ds, mapped_grid, refl_grid, polygon_grid, max_iterations,
                   iteration, iter_start>>
    /\ UNCHANGED <<lon_origin, tvars, hvars>>

GrowNext == Iterate \/ Converge \/ ReachCap
GrowSpec == GrowInit /\ [][GrowNext]_vars
GrowFair == GrowFairInit /\ [][GrowNext]_vars /\ WF_vars(GrowNext)

\* ------------------------------------------------------------ cell records
\* what create_entry computes for one region: the gate count, the peak and the
\* weighted centroid; no gate at all means no record, and a region whose gates are
\* all NaN gets the NaN sentinels
Observations ==
    { [num_gates |-> 0,  max_refl |-> NaN, lat |-> NaN, lon |-> NaN],
      [num_gates |-> 10, max_refl |-> 45,  lat |-> 35,  lon |-> 283],
      [num_gates |-> 4,  max_refl |-> 45,  lat |-> 35,  lon |-> 283],
      [num_gates |-> 4,  max_refl |-> NaN, lat |-> NaN, lon |-> NaN] }
\* DetectionDataHandler.find_timestamp(radar_path): one timestamp per radar file
Timestamp(f) == f
\* int(cell['id']): of a numpy integer or of its decimal string
IntOf(id) == id.n

\* Python equality of floats: NaN equals nothing
PyFloatEq(a, b) == a # NaN /\ b # NaN /\ a = b
\* Python equality of two sequences: equal types, and elements identical or equal;
\* the NaN of an in-memory tuple is the one np.nan object, a parsed NaN is a new one
PySeqEq(a, b) ==
    /\ a.rep = b.rep
    /\ \A x \in {<<a.lat, b.lat>>, <<a.lon, b.lon>>} :
          IF x[1] = NaN \/ x[2] = NaN
          THEN x[1] = NaN /\ x[2] = NaN /\ a.rep = "tuple"
          ELSE x[1] = x[2]

\* the snapshot append_storm_history builds for a cell
LatestStormHistory(cell, ts) ==
    [id |-> cell.id, timestamp |-> ts, max_refl |-> cell.max_refl,
     num_gates |-> cell.num_gates, centroid |-> cell.centroid]
\* a comparison that looks at the peak only
SameValuesPeakOnly(last_entry, cell) == PyFloatEq(last_entry.max_refl, cell.max_refl)
\* the value comparison of append_storm_history
SameValues(last_entry, cell) ==
    /\ PyFloatEq(last_entry.max_refl, cell.max_refl)
    /\ last_entry.num_gates = cell.num_gates
    /\ PySeqEq(last_entry.centroid, cell.centroid)
\* an append that starts the time series over with the latest snapshot
AppendOneTruncating(cell, ts) ==
    LET h == cell.storm_history IN
    IF h # <<>> /\ h[Len(h)].timestamp = ts THEN cell
    ELSE IF h # <<>> /\ SameValues(h[Len(h)], cell) THEN cell
    ELSE [cell EXCEPT !.storm_history = <<LatestStormHistory(cell, ts)>>]
\* an append without the duplicate-timestamp check
AppendOneNoTimestampCheck(cell, ts) ==
    LET h == cell.storm_history IN
    IF h # <<>> /\ SameValues(h[Len(h)], cell) THEN cell
    ELSE [cell EXCEPT !.storm_history = Append(h, LatestStormHistory(cell, ts))]
\* the body of the loop of append_storm_history for one cell
AppendOne(cell, ts) ==
    LET h == cell.storm_history IN
    IF h # <<>> /\ h[Len(h)].timestamp = ts THEN cell
    ELSE IF h # <<>> /\ SameValues(h[Len(h)], cell) THEN cell
    ELSE [cell EXCEPT !.storm_history = Append(h, LatestStormHistory(cell, ts))]
AppendStormHistoryOp(es, ts) == [k \in 1..Len(es) |-> AppendOne(es[k], ts)]

\* the record create_entry appends for region n in frame f
NewEntry(n, f, o) ==
    [id |-> [rep |-> "int64", n |-> n],
     num_gates |-> o.num_gates,
     centroid |-> [rep |-> "tuple", lat |-> o.lat, lon |-> o.lon],
     bbox |-> [rep |-> "tuples", contour |-> f],
     hail_core |-> [rep |-> "tuples", contour |-> f],
     max_refl |-> o.max_refl,
     storm_history |-> <<>>]
\* create_entry: one record per region of bboxes (keys ascending) that owns a gate
RECURSIVE CreateEntry(_, _, _)
CreateEntry(ids, f, obs) ==
    IF ids = {} THEN <<>>
    ELSE LET n == SetMin(ids)
         IN (IF obs[n].num_gates = 0 THEN <<>> ELSE <<NewEntry(n, f, obs[n])>>)
                \o CreateEntry(ids \ {n}, f, obs)
\* detect_cells: create_entry, then append_storm_history with the frame's file
DetectCells(f, obs) == AppendStormHistoryOp(CreateEntry(CellIDs, f, obs), Timestamp(f))

\* json.dump(entries, default=str) then json.load: tuples come back as lists,
\* numpy integers as their decimal strings, floats (NaN too) as floats
JsonSeq(x) == [x EXCEPT !.rep = "list"]
JsonNested(x) == [x EXCEPT !.rep = "lists"]
JsonId(id) == [id EXCEPT !.rep = "str"]
JsonSnapshot(h) == [h EXCEPT !.id = JsonId(h.id), !.centroid = JsonSeq(h.centroid)]
JsonCell(c) ==
    [c EXCEPT !.id = JsonId(c.id),
              !.centroid = JsonSeq(c.centroid),
              !.bbox = JsonNested(c.bbox),
              !.hail_core = JsonNested(c.hail_core),
              !.storm_history = [k \in 1..Len(c.storm_history) |-> JsonSnapshot(c.storm_history[k])]]
JsonDump(es) == [k \in 1..Len(es) |-> JsonCell(es[k])]

\* ------------------------------------------------------------ update_cells
IdsOf(es) == {IntOf(es[k].id) : k \in 1..Len(es)}
\* updated_map[cell_id]: the dict comprehension keeps the last record of an ID
UpdatedMap(updated_data, cell_id) ==
    LET ks == {k \in 1..Len(updated_data) : IntOf(updated_data[k].id) = cell_id}
    IN updated_data[CHOOSE k \in ks : \A j \in ks : j <= k]
\* an update that takes the time series of the new record as well
UpdateFieldsWithHistory(cell, updated) ==
    [cell EXCEPT !.id = updated.id, !.num_gates = updated.num_gates,
                 !.centroid = updated.centroid, !.max_refl = updated.max_refl,
                 !.bbox = updated.bbox, !.storm_history = updated.storm_history]
\* an update that takes the hail core of the new record as well
UpdateFieldsWithHailCore(cell, updated) ==
    [cell EXCEPT !.id = updated.id, !.num_gates = updated.num_gates,
                 !.centroid = updated.centroid, !.max_refl = updated.max_refl,
                 !.bbox = updated.bbox, !.hail_core = updated.hail_core]
\* the five assignments to an existing cell
UpdateFields(cell, updated) ==
    [cell EXCEPT !.id = updated.id, !.num_gates = updated.num_gates,
                 !.centroid = updated.centroid, !.max_refl = updated.max_refl,
                 !.bbox = updated.bbox]
\* a first loop that keeps the cells the new scan does not have
RECURSIVE ExistingLoopKeepMissing(_, _, _)
ExistingLoopKeepMissing(es, updated_data, k) ==
    IF k > Len(es) THEN <<>>
    ELSE (IF IntOf(es[k].id) \in IdsOf(updated_data)
          THEN <<UpdateFields(es[k], UpdatedMap(updated_data, IntOf(es[k].id)))>>
          ELSE <<es[k]>>)
             \o ExistingLoopKeepMissing(es, updated_data, k + 1)
\* the first loop: the existing cells that are in updated_map, updated, in order
RECURSIVE ExistingLoop(_, _, _)
ExistingLoop(es, updated_data, k) ==
    IF k > Len(es) THEN <<>>
    ELSE (IF IntOf(es[k].id) \in IdsOf(updated_data)
          THEN <<UpdateFields(es[k], UpdatedMap(updated_data, IntOf(es[k].id)))>>
          ELSE <<>>)
             \o ExistingLoop(es, updated_data, k + 1)
\* a second loop that appends every new record
RECURSIVE NewLoopAll(_, _, _)
NewLoopAll(updated_data, used_ids, k) ==
    IF k > Len(updated_data) THEN <<>>
    ELSE <<updated_data[k]>> \o NewLoopAll(updated_data, used_ids, k + 1)
\* the second loop: the new records whose ID was not used
RECURSIVE NewLoop(_, _, _)
NewLoop(updated_data, used_ids, k) ==
    IF k > Len(updated_data) THEN <<>>
    ELSE (IF IntOf(updated_data[k].id) \notin used_ids THEN <<updated_data[k]>> ELSE <<>>)
             \o NewLoop(updated_data, used_ids, k + 1)
\* a tracker that returns the existing cells when the new scan has none
UpdateCellsOpKeepWhenEmpty(es, updated_data) ==
    IF updated_data = <<>> THEN es
    ELSE LET used_ids == IdsOf(es) \cap IdsOf(updated_data)
         IN ExistingLoop(es, updated_data, 1) \o NewLoop(updated_data, used_ids, 1)
\* a record of the new set has no 'id': cell['id'] raises KeyError while
\* updated_map is built, before any existing record is touched
Malformed(updated_data) == \E k \in 1..Len(updated_data) : updated_data[k].id.rep = "missing"
UpdateCellsOp(es, updated_data) ==
    LET used_ids == IdsOf(es) \cap IdsOf(updated_data)
    IN ExistingLoop(es, updated_data, 1) \o NewLoop(updated_data, used_ids, 1)
\* the existing list after the call: its matched cells were written in place
UpdatedInPlace(es, updated_data) ==
    [k \in 1..Len(es) |->
        IF IntOf(es[k].id) \in IdsOf(updated_data)
        THEN UpdateFields(es[k], UpdatedMap(updated_data, IntOf(es[k].id)))
        ELSE es[k]]

\* the frames in which each ID was last missing, once frame f detected the records es
AbsentAfter(es, f) ==
    [n \in CellIDs |-> IF n \in IdsOf(es) THEN last_absent[n] ELSE f]

\* ------------------------------------------------------------ tracking passes
\* main() of the detection module, dual-frame mode, run for each new radar frame;
\* the JSON file is the only state kept between runs
TrackInit ==
    /\ tpc = "start" /\ frame = 0 /\ json_output = <<"absent">>
    /\ entries_old = <<>> /\ entries_new = <<>> /\ entries = <<>>
    /\ pre_old = <<>> /\ pre_hist = <<>>
    /\ last_absent = [n \in CellIDs |-> 0]
    /\ DetectIdle
    /\ HostIdle

\* no JSON output yet: entries_old is detected from the old scan
DetectOld ==
    /\ tpc = "start" /\ json_output = <<"absent">>
    /\ \E obs \in [CellIDs -> Observations] :
          /\ entries_old' = DetectCells(frame + 1, obs)
          /\ last_absent' = AbsentAfter(DetectCells(frame + 1, obs), frame + 1)
    /\ frame' = frame + 1
    /\ tpc' = "detect"
    /\ entries' = <<>> /\ entries_new' = <<>> /\ pre_old' = <<>> /\ pre_hist' = <<>>
    /\ UNCHANGED json_output
    /\ UNCHANGED <<dvars, hvars>>

\* the JSON output exists: entries_old is what json.load returns
LoadJson ==
    /\ tpc = "start" /\ json_output # <<"absent">>
    /\ frame < MaxFrames
    /\ entries_old' = json_output[2]
    /\ tpc' = "detect"
    /\ entries' = <<>> /\ entries_new' = <<>> /\ pre_old' = <<>> /\ pre_hist' = <<>>
    /\ UNCHANGED <<frame, json_output, last_absent>>
    /\ UNCHANGED <<dvars, hvars>>

\* entries_new = detect_cells(radar_new, ...)
DetectNew ==
    /\ tpc = "detect"
    /\ frame < MaxFrames
    /\ \E obs \in [CellIDs -> Observations] :
          /\ entries_new' = DetectCells(frame + 1, obs)
          /\ last_absent' = AbsentAfter(DetectCells(frame + 1, obs), frame + 1)
    /\ frame' = frame + 1
    /\ tpc' = "track"
    /\ UNCHANGED <<json_output, entries_old, entries, pre_old, pre_hist>>
    /\ UNCHANGED <<dvars, hvars>>

\* entries = tracker.update_cells(entries_old, entries_new)
UpdateCells ==
    /\ tpc = "track"
    /\ ~Malformed(entries_new)
    /\ pre_old' = entries_old
    /\ entries' = UpdateCellsOp(entries_old, entries_new)
    /\ entries_old' = UpdatedInPlace(entries_old, entries_new)
    /\ tpc' = "append"
    /\ UNCHANGED <<frame, json_output, entries_new, pre_hist, last_absent>>
    /\ UNCHANGED <<dvars, hvars>>

\* entries = saver.append_storm_history(entries, radar_new); the continued cells
\* are the very dicts of entries_old, which see the same append
AppendStormHistory ==
    /\ tpc = "append"
    /\ pre_hist' = [k \in 1..Len(entries) |-> entries[k].storm_history]
    /\ entries' = AppendStormHistoryOp(entries, Timestamp(frame))
    /\ entries_old' =
          [k \in 1..Len(entries_old) |->
              LET ks == {j \in 1..Len(entries) : entries[j] = entries_old[k]}
              IN IF ks = {} THEN entries_old[k]
                 ELSE AppendOne(entries_old[k], Timestamp(frame))]
    /\ tpc' = "save"
    /\ UNCHANGED <<frame, json_output, entries_new, pre_old, last_absent>>
    /\ UNCHANGED <<dvars, hvars>>

\* js.dump(entries, f, indent=2, default=str)
SaveJson ==
    /\ tpc = "save"
    /\ json_output' = <<"file", JsonDump(entries)>>
    /\ tpc' = "start"
    /\ UNCHANGED <<frame, entries_old, entries_new, entries, pre_old, pre_hist, last_absent>>
    /\ UNCHANGED <<dvars, hvars>>

\* update_cells raises KeyError out of the dict comprehension
UpdateCellsRaises ==
    /\ tpc = "track"
    /\ Malformed(entries_new)
    /\ pre_old' = entries_old
    /\ tpc' = "raised"
    /\ UNCHANGED <<frame, json_output, entries_old, entries_new, entries, pre_hist, last_absent>>
    /\ UNCHANGED <<dvars, hvars>>

TrackNext == DetectOld \/ LoadJson \/ DetectNew \/ UpdateCells \/ AppendStormHistory \/ SaveJson
TrackSpec == TrackInit /\ [][TrackNext]_vars

\* -------------------------------------------------- detect_cells on a raster
\* radar_ds['longitude'] as create_entry reads it: one degree per gate from the
\* raster's first longitude; moving a raster and its candidate regions east
\* together leaves the Ownership Grids as they are
LonGrid(j) == lon_origin + j
\* a raster in the 0..360 convention, two across the 360 seam, one in -180..180
LonOrigins == {283, 359, 362, -78}
\* np.sum over the gates S of the values f
RECURSIVE Sum(_, _)
Sum(f, S) ==
    IF S = {} THEN 0
    ELSE LET g == CHOOSE x \in S : TRUE IN f[g] + Sum(f, S \ {g})
\* np.exp(refl) in thousandths of exp(Threshold - 1): a weighted mean does not
\* change when all its weights are scaled alike
RECURSIVE Exp(_)
Exp(r) == IF r = Threshold - 1 THEN 1000 ELSE (Exp(r - 1) * 2718) \div 1000
\* a centroid longitude stored as computed
WrapLongitudeNone(x) == x
\* lon_centroid % 360, on hundredths of a degree
WrapLongitude(x) == x % (100 * FullCircle)

\* measure.find_contours(mask, 0.5): marching squares draws a segment in every
\* 2 x 2 square of gates that has gates of both sides; the squares are named by
\* their upper left gate
ContourSquares(mask) ==
    {q \in (0..(NumRows - 2)) \X (0..(NumCols - 2)) :
        LET sq == {<<q[1], q[2]>>, <<q[1] + 1, q[2]>>, <<q[1], q[2] + 1>>, <<q[1] + 1, q[2] + 1>>}
        IN sq \cap mask # {} /\ sq \ mask # {}}
\* the keys of the dict draw_bbox returns: the regions with a contour
DrawBbox(expanded) ==
    {n \in UniqueIds(expanded) : ContourSquares(PolyMask(expanded, n)) # {}}

\* statistics that count the gates with a valid intensity only
ObserveCountsValid(mask, refl) ==
    LET valid == {g \in mask : refl[g] # NaN}
        w == [g \in valid |-> Exp(refl[g])]
    IN IF valid # {}
       THEN [num_gates |-> Cardinality(valid),
             max_refl |-> SetMax({refl[g] : g \in valid}),
             lat |-> (100 * Sum([g \in valid |-> Lats(g[1]) * w[g]], valid)) \div Sum(w, valid),
             lon |-> WrapLongitude(
                       (100 * Sum([g \in valid |-> LonGrid(g[2]) * w[g]], valid)) \div Sum(w, valid))]
       ELSE [num_gates |-> Cardinality(valid), max_refl |-> NaN, lat |-> NaN, lon |-> NaN]
\* the statistics create_entry computes over the gates of mask: the gate count, the
\* peak and the exp-weighted centroid of the gates that are not NaN, the centroid
\* in hundredths of a degree
Observe(mask, refl) ==
    LET valid == {g \in mask : refl[g] # NaN}
        w == [g \in valid |-> Exp(refl[g])]
    IN IF valid # {}
       THEN [num_gates |-> Cardinality(mask),
             max_refl |-> SetMax({refl[g] : g \in valid}),
             lat |-> (100 * Sum([g \in valid |-> Lats(g[1]) * w[g]], valid)) \div Sum(w, valid),
             lon |-> WrapLongitude(
                       (100 * Sum([g \in valid |-> LonGrid(g[2]) * w[g]], valid)) \div Sum(w, valid))]
       ELSE [num_gates |-> Cardinality(mask), max_refl |-> NaN, lat |-> NaN, lon |-> NaN]
\* the record of region n with the boundary traced for it; the precipitation-type
\* raster has no hail gate, so the hail core is the empty list
GridEntry(n, o, contour) ==
    [NewEntry(n, contour, o) EXCEPT !.hail_core = [rep |-> "tuples", contour |-> {}]]
\* create_entry: polygon_grid = self.mapped_ds['PolygonID'].values
StatsGrid(mapped, expanded) == mapped
\* create_entry over the keys of bboxes (ascending, as draw_bbox inserted them)
RECURSIVE CreateEntryGrid(_, _, _, _)
CreateEntryGrid(ids, mapped, expanded, refl) ==
    IF ids = {} THEN <<>>
    ELSE LET n == SetMin(ids)
             mask == PolyMask(StatsGrid(mapped, expanded), n)
         IN (IF mask = {} THEN <<>>
             ELSE <<GridEntry(n, Observe(mask, refl),
                              ContourSquares(PolyMask(expanded, n)))>>)
                \o CreateEntryGrid(ids \ {n}, mapped, expanded, refl)
\* detect_cells after expand_gates: draw_bbox, create_entry, append_storm_history
DetectCellsGrid(mapped, expanded, refl, f) ==
    AppendStormHistoryOp(CreateEntryGrid(DrawBbox(expanded), mapped, expanded, refl),
                         Timestamp(f))

\* reflectivity grids with gates that have no value: whole columns of NaN
NaNColumnGrids ==
    {[g \in Gates |-> v[g[2]]] : v \in [Cols -> ReflValues \cup {NaN}]}
DetectReflGrids == ReflGrids \cup NaNColumnGrids

\* main() in dual-frame mode with no JSON output, the old scan had no cell;
\* detect_cells(radar_new, ...) has mapped the new scan and enters expand_gates
DetectInit ==
    /\ pc = "loop"
    /\ ps_ds = <<>>
    /\ mapped_grid \in MappedGrids
    /\ polygon_grid = mapped_grid
    /\ iter_start = mapped_grid
    /\ refl_grid \in DetectReflGrids
    /\ max_iterations = DefaultMaxIterations
    /\ iteration = 0
    /\ log = "none"
    /\ lon_origin \in LonOrigins
    /\ tpc = "detect" /\ frame = 1 /\ json_output = <<"absent">>
    /\ entries_old = <<>> /\ entries_new = <<>> /\ entries = <<>>
    /\ pre_old = <<>> /\ pre_hist = <<>>
    /\ last_absent = [n \in CellIDs |-> 1]
    /\ HostIdle

\* the rest of detect_cells: entries_new = detect_cells(radar_new, ...)
DetectCellsStep ==
    /\ pc = "returned" /\ tpc = "detect"
    /\ entries_new' = DetectCellsGrid(mapped_grid, polygon_grid, refl_grid, frame + 1)
    /\ last_absent' = [n \in CellIDs |-> frame + 1]
    /\ frame' = frame + 1
    /\ pc' = "detected"
    /\ tpc' = "track"
    /\ UNCHANGED <<ps_ds, mapped_grid, refl_grid, polygon_grid, max_iterations,
                   iteration, iter_start, log, lon_origin>>
    /\ UNCHANGED <<json_output, entries_old, entries, pre_old, pre_hist>>
    /\ UNCHANGED hvars

DetectNext ==
    Iterate \/ Converge \/ DetectCellsStep \/ UpdateCells \/ AppendStormHistory \/ SaveJson
DetectSpec == DetectInit /\ [][DetectNext]_vars

\* ------------------------------------------------- update_cells on its own
\* the record es[k] without its 'id' key
WithoutId(es, k) == [es EXCEPT ![k].id = [rep |-> "missing", n |-> 0]]
\* the existing sets: detected in memory, or loaded from the JSON output
ExistingSets ==
    LET detected == {DetectCells(1, obs) : obs \in [CellIDs -> Observations]}
    IN detected \cup {JsonDump(es) : es \in detected}
\* the new sets: detected, or with one record that lost its 'id'
UpdatedDataSets ==
    LET detected == {DetectCells(2, obs) : obs \in [CellIDs -> Observations]}
    IN detected \cup UNION {{WithoutId(es, k) : k \in 1..Len(es)} : es \in detected}
\* tracker.update_cells(entries, updated_data) called with any of these
UpdateInit ==
    /\ tpc = "track" /\ frame = 2 /\ json_output = <<"absent">>
    /\ entries_old \in ExistingSets
    /\ entries_new \in UpdatedDataSets
    /\ entries = <<>> /\ pre_old = <<>> /\ pre_hist = <<>>
    /\ last_absent = [n \in CellIDs |-> 0]
    /\ DetectIdle
    /\ HostIdle
UpdateNext == UpdateCells \/ UpdateCellsRaises
UpdateSpec == UpdateInit /\ [][UpdateNext]_vars

\* ------------------------------------------------------------ pipeline runs
\* a downloaded file: the timestamp in its name, and whether it can be opened
File(t, ok) == [ts |-> t, ok |-> ok]
\* fs.clean_old_files(folder, max_age_minutes=20): the files last modified before
\* the cutoff are deleted
CleanOldFiles(d, cutoff) ==
    [d EXCEPT !.files = SelectSeq(d.files, LAMBDA f : f.ts > cutoff)]
\* the files of a directory that a run can still read: latest_files is called with
\* n <= 2 and clean_old_files deletes the oldest first, so older ones are dropped
KeepLatest(files) == IF Len(files) <= 2 THEN files ELSE SubSeq(files, Len(files) - 1, Len(files))
\* fs.latest_files(dir, n): None for a directory that does not exist, RuntimeError
\* for fewer than n files, else the n latest files, oldest first
LatestFiles(d, n) ==
    IF ~d.exists THEN [out |-> "None"]
    ELSE IF Len(d.files) < n THEN [out |-> "RuntimeError"]
    ELSE [out |-> "files", files |-> SubSeq(d.files, Len(d.files) - n + 1, Len(d.files))]
\* the order in which pipeline() reads the directories
ReadOrder == <<"composite", "probsevere", "preciptyp">>
\* the first directory, in reading order, whose latest_files call does not return files
FirstFailure(r) ==
    LET bad == {k \in 1..Len(ReadOrder) : r[ReadOrder[k]].out # "files"}
    IN IF bad = {} THEN 0 ELSE SetMin(bad)
\* the inner try of pipeline(): two files of every source; on RuntimeError one file
\* of every source and no new frame; unpacking or indexing None is a TypeError and
\* a RuntimeError inside the handler is not caught there: both leave the outer try
SelectFiles(ds) ==
    LET two == [s \in Sources |-> LatestFiles(ds[s], 2)]
        one == [s \in Sources |-> LatestFiles(ds[s], 1)]
        k2 == FirstFailure(two)
    IN IF k2 = 0
       THEN [mode |-> "dual",
             radar_old |-> two["composite"].files[1], radar_new |-> two["composite"].files[2],
             ps_old |-> two["probsevere"].files[1], ps_new |-> two["probsevere"].files[2]]
       ELSE IF two[ReadOrder[k2]].out = "None" THEN [mode |-> "raise"]
       ELSE IF FirstFailure(one) # 0 THEN [mode |-> "raise"]
       ELSE [mode |-> "single",
             radar_old |-> one["composite"].files[1], ps_old |-> one["probsevere"].files[1]]
\* detect_cells raises when load_subset returned None (radar_ds['latitude']), when
\* load_probsevere returned a list (ps_ds.get), and when a region owns gates while
\* no precipitation-type path was given (preciptype_ds['unknown'])
DetectCellsRaises(radar, ps, pt_given, obs) ==
    \/ ~radar.ok
    \/ ~ps.ok
    \/ ~pt_given /\ DetectCells(radar.ts, obs) # <<>>
\* main() of the detection module: what it writes to the JSON output, or the
\* exception it raises; the output is written in the last statement only
DetectMain(sel, json, obs_old, obs_new) ==
    LET single_frame == sel.mode = "single"
        load == json # <<"absent">>
        entries_o == IF load THEN json[2] ELSE DetectCells(sel.radar_old.ts, obs_old)
    IN IF ~load /\ DetectCellsRaises(sel.radar_old, sel.ps_old, ~single_frame, obs_old)
       THEN <<"raise">>
       ELSE IF single_frame
       THEN <<"file", JsonDump(AppendStormHistoryOp(entries_o, Timestamp(sel.radar_old.ts)))>>
       ELSE IF DetectCellsRaises(sel.radar_new, sel.ps_new, TRUE, obs_new)
       THEN <<"raise">>
       ELSE <<"file",
              JsonDump(AppendStormHistoryOp(
                  UpdateCellsOp(entries_o, DetectCells(sel.radar_new.ts, obs_new)),
                  Timestamp(sel.radar_new.ts)))>>
\* what a scan of the pipeline holds: cell 5 or no cell
PipeObservations ==
    {obs \in [CellIDs -> Observations] : obs[7].num_gates = 0 /\ obs[5].num_gates <= 4}

\* a fresh installation: no download directory, no JSON output, no run yet
PipeInit ==
    /\ ppc = "idle" /\ dt = 0 /\ worker = [s \in Sources |-> "none"]
    /\ dirs = [s \in Sources |-> [exists |-> FALSE, files |-> <<>>]]
    /\ json_before = <<"absent">> /\ plog = "none"
    /\ TrackIdle /\ DetectIdle /\ SchedIdle

\* main() spawns pipeline(log_queue, dt) for the next timestamp; download_all_files
\* cleans the download directories and submits one process_modifier per source
StartPipeline ==
    /\ ppc = "idle" /\ dt < MaxRuns
    /\ dt' = dt + 1
    /\ \E cutoff \in 0..dt : dirs' = [s \in Sources |-> CleanOldFiles(dirs[s], cutoff)]
    /\ worker' = [s \in Sources |-> "submitted"]
    /\ json_before' = json_output
    /\ plog' = "ingest"
    /\ ppc' = "ingest"
    /\ UNCHANGED <<dvars, tvars, svars>>

\* process_modifier(modifier, outdir, dt, ...) in its worker thread: nothing found
\* or nothing downloaded, a file written to outdir (it may be one that cannot be
\* opened), or an exception caught and logged
ProcessModifier(s) ==
    /\ ppc = "ingest" /\ worker[s] = "submitted"
    /\ \/ /\ worker' = [worker EXCEPT ![s] = "finished"]
          /\ UNCHANGED dirs
       \/ /\ worker' = [worker EXCEPT ![s] = "finished"]
          /\ \E ok \in (IF s = "preciptyp" THEN {TRUE} ELSE BOOLEAN) :
                dirs' = [dirs EXCEPT ![s] = [exists |-> TRUE,
                                             files |-> KeepLatest(Append(@.files, File(dt, ok)))]]
       \/ /\ worker' = [worker EXCEPT ![s] = "failed"]
          /\ UNCHANGED dirs
    /\ UNCHANGED <<ppc, dt, json_before, plog>>
    /\ UNCHANGED <<dvars, tvars, svars>>

\* a pool that hands control back as soon as one task is over
AnyWorkerOver == \E s \in Sources : worker[s] \in {"finished", "failed"}
\* the with block of download_all_files: as_completed yields every future, and
\* leaving the block waits for all of them
AllWorkersOver == \A s \in Sources : worker[s] \in {"finished", "failed"}

\* the rest of pipeline() once download_all_files has returned: the files are
\* selected, detect.main runs and writes the JSON output, or an exception is logged
DetectionPass ==
    /\ ppc = "ingest" /\ AllWorkersOver
    /\ LET sel == SelectFiles(dirs) IN
       \E obs_old \in PipeObservations : \E obs_new \in PipeObservations :
          LET r == IF sel.mode = "raise" THEN <<"raise">>
                   ELSE DetectMain(sel, json_output, obs_old, obs_new)
          IN /\ json_output' = (IF r[1] = "raise" THEN json_output ELSE r)
             /\ plog' = (IF r[1] = "raise" THEN "error" ELSE "completed")
    /\ ppc' = "done"
    /\ UNCHANGED <<dt, worker, dirs, json_before>>
    /\ UNCHANGED <<dvars, svars>>
    /\ UNCHANGED <<tpc, frame, entries_old, entries_new, entries, pre_old, pre_hist,
                   last_absent>>

\* proc.join(): the pipeline process ended, the scheduler goes on polling
JoinPipeline ==
    /\ ppc = "done"
    /\ ppc' = "idle"
    /\ UNCHANGED <<dt, worker, dirs, json_before, plog>>
    /\ UNCHANGED <<dvars, tvars, svars>>

PipeNext ==
    StartPipeline \/ (\E s \in Sources : ProcessModifier(s)) \/ DetectionPass \/ JoinPipeline
PipeSpec == PipeInit /\ [][PipeNext]_vars

\* ------------------------------------------------------------ the scheduler
\* the n latest minutes of a set: sort(reverse=True)[:n]
RECURSIVE LatestOf(_, _)
LatestOf(S, n) ==
    IF n = 0 \/ S = {} THEN {} ELSE {SetMax(S)} \cup LatestOf(S \ {SetMax(S)}, n - 1)
\* FileFinder.lookup_files for one listing: the files stamped between dt - max_time
\* and dt, the max_entries latest of them
LookupFiles(listing, reference_dt, max_time, max_entries) ==
    LatestOf({t \in listing : reference_dt - max_time <= t /\ t <= reference_dt},
             max_entries)
\* latest_common_minute_1h over the listings the remote directories returned: a
\* modifier without files is passed over (continue), the sets of the others are
\* intersected
LatestCommonMinute1h(listings, reference_dt) ==
    LET found == [m \in Modifiers |->
                     LookupFiles(listings[m], reference_dt, Hour, MaxEntries)]
        modifier_times == {m \in Modifiers : found[m] # {}}
        common_minutes == {t \in UNION {found[m] : m \in modifier_times} :
                              \A m \in modifier_times : t \in found[m]}
    IN IF modifier_times = {} THEN None
       ELSE IF common_minutes = {} THEN None
       ELSE SetMax(common_minutes)

\* the reference time of a single call: minute 0 is older than one hour
CallTime == Hour + 1
\* remote directories that hold one file per minute over some span of minutes,
\* the minute after the reference time included
Listings == {{}} \cup {lo..hi : lo \in 0..(CallTime + 1), hi \in 0..(CallTime + 1)}
\* latest_common_minute_1h(modifiers, reference_dt) about to be called
CommonInit ==
    /\ spc = "call" /\ now = CallTime
    /\ remote \in [Modifiers -> Listings]
    /\ latest_common = None /\ last_processed = None /\ spawned = <<>>
    /\ PipeIdle /\ TrackIdle /\ DetectIdle
CallLatestCommonMinute ==
    /\ spc = "call"
    /\ latest_common' = LatestCommonMinute1h(remote, now)
    /\ spc' = "returned"
    /\ UNCHANGED <<now, remote, last_processed, spawned>>
    /\ UNCHANGED <<dvars, tvars, pvars>>
CommonNext == CallLatestCommonMinute
CommonSpec == CommonInit /\ [][CommonNext]_vars

\* main() of run.py entering its loop: nothing processed, nothing published yet
SchedInit ==
    /\ spc = "poll" /\ now = 1
    /\ remote = [m \in Modifiers |-> {}]
    /\ latest_common = None /\ last_processed = None /\ spawned = <<>>
    /\ PipeIdle /\ TrackIdle /\ DetectIdle
\* the remote directory of a modifier receives a file, later than the ones it has
Publish(m) ==
    /\ spc = "poll"
    /\ \E t \in 1..now :
          /\ \A u \in remote[m] : u < t
          /\ remote' = [remote EXCEPT ![m] = @ \cup {t}]
    /\ UNCHANGED <<spc, now, latest_common, last_processed, spawned>>
    /\ UNCHANGED <<dvars, tvars, pvars>>
\* a minute passes
Tick ==
    /\ spc = "poll" /\ now < MaxNow
    /\ now' = now + 1
    /\ UNCHANGED <<spc, remote, latest_common, last_processed, spawned>>
    /\ UNCHANGED <<dvars, tvars, pvars>>
\* one turn of the loop of main(): the directories that answer are listed
\* (list_http_directory returns [] for one that does not), and a pipeline is
\* spawned and joined when the latest common minute is not last_processed; the
\* pipeline runs in a process of its own and writes none of these variables
Poll ==
    /\ spc = "poll" /\ Len(spawned) < MaxSpawns
    /\ \E reached \in SUBSET Modifiers :
          LET listings == [m \in Modifiers |-> IF m \in reached THEN remote[m] ELSE {}]
              lc == LatestCommonMinute1h(listings, now)
          IN /\ latest_common' = lc
             /\ IF lc # None /\ lc # last_processed
                THEN last_processed' = lc /\ spawned' = Append(spawned, lc)
                ELSE UNCHANGED <<last_processed, spawned>>
    /\ UNCHANGED <<spc, now, remote>>
    /\ UNCHANGED <<dvars, tvars, pvars>>
SchedNext == (\E m \in Modifiers : Publish(m)) \/ Tick \/ Poll
SchedSpec == SchedInit /\ [][SchedNext]_vars

\* ------------------------------------------------------------------ claims
Neighbours(g) == {n \in Gates : \E d \in Structure \ {<<0, 0>>} : n = <<g[1] + d[1], g[2] + d[2]>>}
Below(x) == x # NaN /\ x < Threshold

\* C1: during region growth a gate whose Ownership Grid value is nonzero when an
\* iteration begins has the same value after that iteration and in the returned
\* grid; every gate the Mapper assigned keeps its ID through growth.
C1_MonotonicClaim ==
    \A g \in Gates :
        /\ iter_start[g] # 0 => polygon_grid[g] = iter_start[g]
        /\ mapped_grid[g] # 0 => polygon_grid[g] = mapped_grid[g]
\* an iteration has claimed a gate next to a gate the Mapper gave to another region
C1_Witness ==
    /\ iteration >= 1
    /\ \E g \in Gates : \E n \in Neighbours(g) :
          /\ mapped_grid[g] # 0
          /\ iter_start[n] = 0 /\ polygon_grid[n] # 0
          /\ polygon_grid[n] # mapped_grid[g]
          /\ polygon_grid[g] = mapped_grid[g]

\* C2: growth is simultaneous within an iteration: a gate claimed for region R in
\* an iteration has a 4-connected neighbour that R owned when the iteration began.
C2_SimultaneousGrowth ==
    \A g \in Gates :
        polygon_grid[g] # iter_start[g] =>
            \E n \in Neighbours(g) : iter_start[n] = polygon_grid[g]
\* an iteration has claimed a gate that two different regions were adjacent to
C2_Witness ==
    /\ iteration >= 1
    /\ \E g \in Gates : \E n1 \in Neighbours(g) : \E n2 \in Neighbours(g) :
          /\ polygon_grid[g] # iter_start[g]
          /\ iter_start[n1] > 0 /\ iter_start[n2] > 0
          /\ iter_start[n1] # iter_start[n2]

\* C3 (as stated): in the returned Ownership Grid every gate whose intensity is
\* below the threshold has value 0.
C3_Original ==
    pc = "returned" => \A g \in Gates : Below(refl_grid[g]) => polygon_grid[g] = 0
\* C3 (amended): in the returned Ownership Grid every gate whose intensity is below
\* the threshold and that the Mapper left unowned has value 0, whatever it is
\* adjacent to; a below-threshold gate inside a candidate polygon stays owned.
C3_ThresholdExclusion ==
    pc = "returned" =>
        \A g \in Gates : (Below(refl_grid[g]) /\ mapped_grid[g] = 0) => polygon_grid[g] = 0
\* growth has run and returned with a below-threshold gate next to an owned one
C3_Witness ==
    /\ pc = "returned" /\ iteration >= 1
    /\ \E g \in Gates : \E n \in Neighbours(g) :
          /\ Below(refl_grid[g]) /\ mapped_grid[g] = 0
          /\ polygon_grid[n] # 0 /\ polygon_grid[g] = 0

\* C4: region growth always terminates: it returns at the first iteration that
\* finds no claimable gate, or after max_iterations iterations; at the cap nothing
\* is raised and the partially grown grid is what is returned.
C4_GrowthTerminates ==
    /\ <>(pc = "returned")
    /\ [](pc \in {"loop", "returned"} /\ iteration <= max_iterations)
    /\ [](pc = "returned" =>
            \/ /\ log = "completed" /\ iteration < max_iterations
               /\ Candidates(polygon_grid, refl_grid) = {}
            \/ log = "max_iterations" /\ iteration = max_iterations)
    /\ [][(pc = "loop" /\ iteration < max_iterations
             /\ Candidates(polygon_grid, refl_grid) = {}) => pc' = "returned"]_vars
\* the cap was reached with claimable gates left: a partial grid was returned
C4_Witness ==
    /\ pc = "returned" /\ log = "max_iterations"
    /\ Candidates(polygon_grid, refl_grid) # {}
    /\ polygon_grid # mapped_grid

\* the ID of the first region, in supplied order, whose polygon contains the gate
FirstMatch(fs, g) ==
    LET hits == {k \in 1..Len(fs) : PolygonContains(fs[k].ring, GatePoint(g))}
    IN IF hits = {} THEN 0 ELSE fs[SetMin(hits)].ID
\* C5: map_gates_to_polygons gives every gate the ID of the first candidate
\* region, in supplied order, whose polygon contains the gate, and 0 when none
\* does; a later region never overwrites an earlier one.
C5_FirstMatch ==
    pc = "mapped" => \A g \in Gates : mapped_grid[g] = FirstMatch(ps_ds, g)
\* a gate lies inside two regions with different IDs and has the first one's ID
C5_Witness ==
    /\ pc = "mapped"
    /\ \E g \in Gates : \E k1 \in 1..Len(ps_ds) : \E k2 \in 1..Len(ps_ds) :
          /\ k1 < k2 /\ ps_ds[k1].ID # ps_ds[k2].ID
          /\ PolygonContains(ps_ds[k1].ring, GatePoint(g))
          /\ PolygonContains(ps_ds[k2].ring, GatePoint(g))
          /\ mapped_grid[g] = ps_ds[k1].ID

\* the record of ID n in a list of records, and how many there are
Find(es, n) == es[CHOOSE k \in 1..Len(es) : IntOf(es[k].id) = n]
Count(es, n) == Cardinality({k \in 1..Len(es) : IntOf(es[k].id) = n})
LastOf(h) == h[Len(h)]
\* the IDs update_cells removes: in the existing set and not in the new set
Removed == IdsOf(pre_old) \ IdsOf(entries_new)
\* the IDs update_cells continues: in the existing set and in the new set
Continued == IdsOf(pre_old) \cap IdsOf(entries_new)

\* C6: the output of update_cells has no record with the ID of an existing record
\* that is absent from the new set, and neither has the set persisted by that pass.
C6_TrackerRemoval ==
    /\ tpc \in {"append", "save"} => \A n \in Removed : n \notin IdsOf(entries)
    /\ (tpc = "start" /\ json_output[1] = "file") =>
          \A n \in Removed : n \notin IdsOf(json_output[2])
\* update_cells has returned a non-empty set after dropping an existing record
C6_Witness ==
    /\ tpc = "append"
    /\ 7 \in Removed
    /\ entries # <<>>

\* C7: with unique IDs in the existing and in the new set, the output of
\* update_cells has exactly one record for every ID of the new set and none for any
\* other ID; after any sequence of passes no set holds two records of one ID.
C7_ActiveSetIdentity ==
    /\ tpc = "append" =>
          \A n \in CellIDs : Count(entries, n) = (IF n \in IdsOf(entries_new) THEN 1 ELSE 0)
    /\ \A n \in CellIDs :
          /\ Count(entries, n) <= 1 /\ Count(entries_old, n) <= 1
          /\ json_output[1] = "file" => Count(json_output[2], n) <= 1
\* update_cells has returned a continued cell and a brand-new one, in a later pass
C7_Witness ==
    /\ tpc = "append" /\ frame >= 3
    /\ Continued # {}
    /\ IdsOf(entries_new) \ IdsOf(pre_old) # {}
    /\ Len(entries) = 2

\* the values of a snapshot and of a record differ
ValuesDiffer(last_entry, cell) ==
    \/ last_entry.max_refl # cell.max_refl
    \/ last_entry.num_gates # cell.num_gates
    \/ last_entry.centroid.lat # cell.centroid.lat
    \/ last_entry.centroid.lon # cell.centroid.lon
\* C8: for an existing record whose ID is in the new set, tracking followed by the
\* history append at a new timestamp yields a record of the same ID with the new
\* record's gate count, centroid, peak intensity and boundary, whose time series is
\* the old one followed by one snapshot (new timestamp, new values), provided the
\* new values differ from those of the last snapshot.
C8_TrackerContinuity ==
    tpc = "save" =>
        \A k \in 1..Len(pre_old) :
            LET n == IntOf(pre_old[k].id) IN
            n \in IdsOf(entries_new) =>
                LET new == Find(entries_new, n)
                    out == Find(entries, n)
                    h == pre_old[k].storm_history
                    ts == Timestamp(frame)
                IN /\ Count(entries, n) = 1
                   /\ out.id = new.id
                   /\ out.num_gates = new.num_gates
                   /\ out.centroid = new.centroid
                   /\ out.max_refl = new.max_refl
                   /\ out.bbox = new.bbox
                   /\ (h # <<>> /\ LastOf(h).timestamp # ts /\ ValuesDiffer(LastOf(h), new)) =>
                         out.storm_history =
                            Append(h, [id |-> new.id, timestamp |-> ts,
                                       max_refl |-> new.max_refl,
                                       num_gates |-> new.num_gates,
                                       centroid |-> new.centroid])
\* cell 5 with one snapshot was re-detected with 10 gates, not 4: two snapshots
C8_Witness ==
    /\ tpc = "save"
    /\ 5 \in Continued
    /\ Len(Find(pre_old, 5).storm_history) = 1
    /\ LastOf(Find(pre_old, 5).storm_history).num_gates = 4
    /\ Find(entries_new, 5).num_gates = 10
    /\ Find(entries, 5).num_gates = 10
    /\ Len(Find(entries, 5).storm_history) = 2

\* the values of a snapshot and of a record are the same numbers
ValuesIdentical(last_entry, cell) ==
    /\ cell.max_refl # NaN /\ cell.centroid.lat # NaN /\ cell.centroid.lon # NaN
    /\ last_entry.max_refl = cell.max_refl
    /\ last_entry.num_gates = cell.num_gates
    /\ last_entry.centroid.lat = cell.centroid.lat
    /\ last_entry.centroid.lon = cell.centroid.lon
\* C9: when the new record of an ID has the peak intensity, gate count and
\* centroid of that ID's last snapshot, tracking and the history append leave the
\* time series at its length, also for records reloaded from the persisted set.
C9_TrackerDeduplication ==
    tpc = "save" =>
        \A k \in 1..Len(pre_old) :
            LET n == IntOf(pre_old[k].id) IN
            (/\ n \in IdsOf(entries_new)
             /\ pre_old[k].storm_history # <<>>
             /\ ValuesIdentical(LastOf(pre_old[k].storm_history), Find(entries_new, n)))
                => Len(Find(entries, n).storm_history) = Len(pre_old[k].storm_history)

\* C10: update_cells leaves every time series alone: an output record that
\* continues an existing ID has the existing record's time series as it was before
\* the call, not the new record's, and the existing records keep theirs too.
C10_HistoryUntouched ==
    tpc = "append" =>
        \A k \in 1..Len(pre_old) :
            /\ entries_old[k].storm_history = pre_old[k].storm_history
            /\ IntOf(pre_old[k].id) \in IdsOf(entries_new) =>
                  Find(entries, IntOf(pre_old[k].id)).storm_history = pre_old[k].storm_history
\* update_cells has continued a cell that had two snapshots
C10_Witness ==
    /\ tpc = "append"
    /\ \E k \in 1..Len(pre_old) :
          /\ IntOf(pre_old[k].id) \in IdsOf(entries_new)
          /\ Len(pre_old[k].storm_history) = 2
          /\ Find(entries_new, IntOf(pre_old[k].id)).storm_history # pre_old[k].storm_history
          /\ Find(entries, IntOf(pre_old[k].id)).num_gates
                = Find(entries_new, IntOf(pre_old[k].id)).num_gates

\* every list of records the pass holds, the persisted one included
Holders ==
    {entries_old, entries_new, entries}
        \cup (IF json_output[1] = "file" THEN {json_output[2]} ELSE {})
\* two snapshots carry the same peak intensity, gate count and centroid
SnapshotsIdentical(a, b) ==
    /\ a.max_refl # NaN /\ a.centroid.lat # NaN /\ a.centroid.lon # NaN
    /\ a.max_refl = b.max_refl
    /\ a.num_gates = b.num_gates
    /\ a.centroid.lat = b.centroid.lat
    /\ a.centroid.lon = b.centroid.lon
\* C11: starting from empty time series, after any sequence of detection, tracking
\* and history-append steps no time series has two consecutive snapshots with the
\* same timestamp, nor two consecutive snapshots with identical peak intensity,
\* gate count and centroid; the history append applied a second time for the same
\* frame changes nothing.
C11_HistoryDeduplication ==
    /\ \A es \in Holders : \A k \in 1..Len(es) :
          LET h == es[k].storm_history IN
          \A i \in 1..(Len(h) - 1) :
              /\ h[i].timestamp # h[i + 1].timestamp
              /\ ~SnapshotsIdentical(h[i], h[i + 1])
    /\ tpc = "save" => AppendStormHistoryOp(entries, Timestamp(frame)) = entries

\* s is a prefix of t
IsPrefix(s, t) == Len(s) <= Len(t) /\ \A i \in 1..Len(s) : t[i] = s[i]
\* the snapshots of a time series as the persisted set holds them
JsonHistory(h) == [i \in 1..Len(h) |-> JsonSnapshot(h[i])]
\* C12: for a cell whose ID is present in two successive frames, the time series
\* after the pass (tracking plus history append) has the time series before the
\* pass as a prefix and is longer by at most one snapshot; so has the persisted one.
C12_AppendOnly ==
    /\ tpc = "save" =>
          \A n \in Continued :
              LET before == Find(pre_old, n).storm_history
                  after == Find(entries, n).storm_history
              IN IsPrefix(before, after) /\ Len(after) <= Len(before) + 1
    /\ (tpc = "start" /\ json_output[1] = "file") =>
          \A n \in Continued :
              LET before == JsonHistory(Find(pre_old, n).storm_history)
                  after == Find(json_output[2], n).storm_history
              IN IsPrefix(before, after) /\ Len(after) <= Len(before) + 1
\* a reloaded cell with two snapshots was continued and got its third
C12_Witness ==
    /\ tpc = "start" /\ json_output[1] = "file"
    /\ \E n \in Continued :
          /\ Len(Find(pre_old, n).storm_history) = 2
          /\ Len(Find(json_output[2], n).storm_history) = 3
          /\ Find(pre_old, n).num_gates # Find(json_output[2], n).num_gates

\* C13: when an ID is absent from one frame's detections and detected again in a
\* later frame, the record created for it is a brand-new cell: its time series has
\* no snapshot from before the frame in which it reappeared.
C13_DestructionFinal ==
    tpc \in {"append", "save", "start"} =>
        \A es \in ({entries} \cup (IF json_output[1] = "file" THEN {json_output[2]} ELSE {})) :
            \A k \in 1..Len(es) :
                LET n == IntOf(es[k].id)
                    h == es[k].storm_history
                IN last_absent[n] < frame =>
                      \A i \in 1..Len(h) : h[i].timestamp > last_absent[n]
\* cell 7 was detected in frame 1, missed in frame 2 and is back in frame 3
C13_Witness ==
    /\ tpc = "start" /\ frame = 3 /\ json_output[1] = "file"
    /\ last_absent[7] = 2
    /\ 7 \in IdsOf(json_output[2])
    /\ Len(Find(json_output[2], 7).storm_history) = 1
    /\ Find(json_output[2], 7).storm_history[1].timestamp = 3

\* C14: when the new record set is empty, update_cells returns an empty active set;
\* when it is empty or malformed (a record without an id), no snapshot of any
\* existing record's time series is added, removed or changed.
C14_EmptyOrMalformed ==
    tpc \in {"append", "raised"} =>
        /\ (tpc = "append" /\ entries_new = <<>>) => entries = <<>>
        /\ (entries_new = <<>> \/ Malformed(entries_new)) =>
              /\ Len(entries_old) = Len(pre_old)
              /\ \A k \in 1..Len(pre_old) :
                    entries_old[k].storm_history = pre_old[k].storm_history
              /\ \A k \in 1..Len(entries) : \E j \in 1..Len(pre_old) :
                    entries[k].storm_history = pre_old[j].storm_history
\* update_cells got two existing cells and an empty new set, and returned
C14_Witness ==
    /\ tpc = "append"
    /\ entries_new = <<>>
    /\ Len(pre_old) = 2
    /\ \A k \in 1..Len(pre_old) : pre_old[k].storm_history # <<>>

\* the IDs update_cells adds as brand-new cells: in the new set only
BrandNew == IdsOf(entries_new) \ IdsOf(pre_old)
\* C15 (as stated): a new record whose ID matches no existing record is in the
\* active set with an empty time series when update_cells returns.
C15_Original ==
    tpc = "append" => \A n \in BrandNew : Find(entries, n).storm_history = <<>>
\* C15 (amended): a new record whose ID matches no existing record enters the
\* active set as detection built it, with the one snapshot of the current frame
\* that detect_cells already appended; the history-append step that follows
\* tracking leaves that time series as it is.
C15_NewCellHistory ==
    tpc \in {"append", "save"} =>
        \A n \in BrandNew :
            LET new == Find(entries_new, n)
                out == Find(entries, n)
            IN /\ Count(entries, n) = 1
               /\ out = new
               /\ out.storm_history = <<LatestStormHistory(new, Timestamp(frame))>>
\* after a reload, tracking and the history append handled a cell seen for the
\* first time, next to a continued one
C15_Witness ==
    /\ tpc = "save" /\ frame = 3
    /\ BrandNew # {} /\ Continued # {}
    /\ \E n \in BrandNew : Len(Find(entries, n).storm_history) = 1

\* C20: running map_gates_to_polygons twice with the same raster and the same
\* candidate-region object yields two identical Ownership Grids, although the
\* first run rewrites the candidates' negative vertex longitudes in place.
C20_MapperIdempotence ==
    [][(pc = "mapped" /\ pc' = "remapped") => mapped_grid' = mapped_grid]_vars
\* the mapper ran twice and a region whose ring the first run rewrote owns a gate
C20_Witness ==
    /\ pc = "remapped"
    /\ \E k \in 1..Len(ps_ds) : \E g \in Gates :
          /\ ps_ds[k].ring \notin Rings
          /\ mapped_grid[g] = ps_ds[k].ID
          /\ PolygonContains(ps_ds[k].ring, GatePoint(g))

\* the gates region n owns in the final Ownership Grid
Owned(n) == PolyMask(polygon_grid, n)
\* C16: the Cell Record Builder works on the Ownership Grid the Region Growth
\* Engine produced, the grid the record's boundary is traced from: the gate count
\* of a record is the number of gates its ID owns in the grown grid, and the
\* centroid and the peak intensity are taken over those gates.
C16_BuilderUsesGrownGrid ==
    pc = "detected" =>
        \A k \in 1..Len(entries_new) :
            LET c == entries_new[k]
                o == Observe(Owned(IntOf(c.id)), refl_grid)
            IN /\ c.num_gates = Cardinality(Owned(IntOf(c.id)))
               /\ c.max_refl = o.max_refl
               /\ c.centroid.lat = o.lat /\ c.centroid.lon = o.lon
               /\ c.bbox.contour = ContourSquares(Owned(IntOf(c.id)))

\* C17: every region ID that owns a gate in the final Ownership Grid has a cell
\* record in the detection output; a region whose mask has no contour is reported
\* with an empty boundary.
C17_EveryRegionReported ==
    pc = "detected" =>
        \A n \in UniqueIds(polygon_grid) :
            /\ Count(entries_new, n) = 1
            /\ ContourSquares(Owned(n)) = {} => Find(entries_new, n).bbox.contour = {}

\* the gates region n owns all have not-a-number intensity
AllNaN(n) == Owned(n) # {} /\ \A g \in Owned(n) : refl_grid[g] = NaN
\* the record carries the sentinels and the gate count of region n
Sentinel(c, n) ==
    /\ c.max_refl = NaN /\ c.centroid.lat = NaN /\ c.centroid.lon = NaN
    /\ c.num_gates = Cardinality(Owned(n))
ValidGates(n) ==
    {g \in PolyMask(StatsGrid(mapped_grid, polygon_grid), n) : refl_grid[g] # NaN}
\* C19: the centroid longitude stored in a cell record with at least one valid
\* gate lies in [0, 360): the weighted-mean longitude L is stored as L modulo 360,
\* so a region whose valid gates all lie at longitude 362 has centroid longitude 2.
C19_LongitudeWrap ==
    pc = "detected" =>
        \A k \in 1..Len(entries_new) :
            LET c == entries_new[k]
                valid == ValidGates(IntOf(c.id))
            IN valid # {} =>
                  /\ 0 <= c.centroid.lon /\ c.centroid.lon < 100 * FullCircle
                  /\ \A j \in Cols :
                        (\A g \in valid : g[2] = j) =>
                            c.centroid.lon = 100 * (LonGrid(j) % FullCircle)
\* a region with all its valid gates at longitude 362 was stored with longitude 2
C19_Witness ==
    /\ pc = "detected"
    /\ \E k \in 1..Len(entries_new) :
          /\ ValidGates(IntOf(entries_new[k].id)) # {}
          /\ \A g \in ValidGates(IntOf(entries_new[k].id)) : LonGrid(g[2]) = 362
          /\ entries_new[k].centroid.lon = 200

\* the ring has vertices on both sides of longitude 0
CrossesSeam(ring) ==
    /\ \E k \in 1..Len(ring) : ring[k][1] < 0
    /\ \E k \in 1..Len(ring) : ring[k][1] > 0
\* the point lies inside the polygon on the globe: its longitude taken west or east
GeoContains(ring, p) ==
    \/ PolygonContains(ring, p)
    \/ PolygonContains(ring, <<p[1] - FullCircle, p[2]>>)
FirstMatchGeo(fs, g) ==
    LET hits == {k \in 1..Len(fs) : GeoContains(fs[k].ring, GatePoint(g))}
    IN IF hits = {} THEN 0 ELSE fs[SetMin(hits)].ID
\* C21: a candidate polygon that crosses the 0/360 longitude seam has its vertices
\* normalized consistently before the containment tests: the gates the mapper
\* gives it are exactly the gates inside the polygon, none on the far side.
C21_SeamHandling ==
    [][(pc = "constructed" /\ pc' = "mapped"
          /\ \E k \in 1..Len(ps_ds) : CrossesSeam(ps_ds[k].ring))
        => \A g \in Gates : mapped_grid'[g] = FirstMatchGeo(ps_ds, g)]_vars

\* an unowned gate at or above the threshold with a 4-connected owned neighbour
Claimable(g) ==
    /\ polygon_grid[g] = 0
    /\ refl_grid[g] # NaN /\ refl_grid[g] >= Threshold
    /\ \E n \in Neighbours(g) : polygon_grid[n] > 0
\* C24: fixed point at convergence: when region growth stops before the iteration
\* cap, the returned Ownership Grid has no unowned gate with intensity >= threshold
\* that is 4-adjacent to an owned gate.
C24_FixedPoint ==
    (pc = "returned" /\ log = "completed") => \A g \in Gates : ~Claimable(g)
\* growth converged after claiming a gate in a column it started from and a gate
\* in a row it started from, and an unowned gate is still next to an owned one
C24_Witness ==
    /\ pc = "returned" /\ log = "completed" /\ iteration >= 1
    /\ \E g \in Gates : \E n \in Neighbours(g) :
          /\ mapped_grid[g] # 0 /\ mapped_grid[n] = 0 /\ polygon_grid[n] # 0
          /\ g[2] = n[2]
    /\ \E g \in Gates : \E n \in Neighbours(g) : polygon_grid[g] = 0 /\ polygon_grid[n] > 0

\* C25: only qualifying gates are claimed by growth: every gate that is unowned
\* after mapping and owned after growth has intensity >= threshold (a gate exactly
\* at the threshold is claimable, a gate below it or with NaN intensity is never
\* claimed), and it was unowned at the start of the iteration that claimed it.
C25_OnlyQualifyingClaimed ==
    \A g \in Gates :
        /\ (mapped_grid[g] = 0 /\ polygon_grid[g] # 0) =>
              (refl_grid[g] # NaN /\ refl_grid[g] >= Threshold)
        /\ polygon_grid[g] # iter_start[g] => iter_start[g] = 0
\* growth returned after claiming a gate exactly at the threshold, and left
\* unowned a NaN gate next to an owned one
C25_Witness ==
    /\ pc = "returned" /\ iteration >= 1
    /\ \E g \in Gates :
          mapped_grid[g] = 0 /\ polygon_grid[g] # 0 /\ refl_grid[g] = Threshold
    /\ \E g \in Gates : \E n \in Neighbours(g) :
          refl_grid[g] = NaN /\ polygon_grid[g] = 0 /\ polygon_grid[n] > 0

\* the IDs of the regions that owned a neighbour of the gate when the iteration began
FrontierIds(g) == {iter_start[n] : n \in Neighbours(g)} \ {0}
\* C26: same-iteration conflict resolution: when the frontiers of two or more
\* regions reach the same unowned qualifying gate in the same growth iteration, the
\* gate is assigned to exactly one of them, the region with the largest ID,
\* independently of the order in which the candidate regions were supplied.
C26_LargestIdWins ==
    \A g \in Gates :
        (iter_start[g] = 0 /\ polygon_grid[g] # 0) =>
            /\ FrontierIds(g) # {}
            /\ \A id \in FrontierIds(g) : polygon_grid[g] >= id
            /\ polygon_grid[g] \in FrontierIds(g)
\* a gate that regions 1 and 2 both reached in the same iteration went to region 2
C26_Witness ==
    /\ iteration >= 1
    /\ \E g \in Gates :
          /\ iter_start[g] = 0 /\ polygon_grid[g] = 2
          /\ FrontierIds(g) = {1, 2}

\* the number of gates the Mapper left unowned whose intensity is >= threshold
InitiallyClaimable ==
    Cardinality({g \in Gates : mapped_grid[g] = 0
                               /\ refl_grid[g] # NaN /\ refl_grid[g] >= Threshold})
\* the iterations of the loop body that ran, the one that breaks included
LoopIterations == iteration + (IF log = "completed" THEN 1 ELSE 0)
\* C27: growth makes progress: every iteration of expand_gates that does not end
\* the loop claims at least one previously unowned gate, so the loop ends after at
\* most min(max_iterations, number of initially unowned gates with intensity >=
\* threshold + 1) iterations.
C27_GrowthProgress ==
    /\ iteration >= 1 => \E g \in Gates : iter_start[g] = 0 /\ polygon_grid[g] # 0
    /\ iteration <= InitiallyClaimable
    /\ pc = "returned" =>
          LoopIterations <= Min2(max_iterations, InitiallyClaimable + 1)
\* growth converged in exactly one more iteration than there were claimable gates
C27_Witness ==
    /\ pc = "returned" /\ log = "completed"
    /\ iteration = 2 /\ InitiallyClaimable = 2
    /\ LoopIterations = InitiallyClaimable + 1

\* C28: for a record that persists across frames, update_cells replaces only id,
\* gate count, centroid, peak intensity and boundary; the record's hail_core
\* sub-polygon is left as it was in the existing record and is not replaced by the
\* hail core computed for the new frame.
C28_HailCoreKept ==
    tpc = "append" =>
        \A k \in 1..Len(pre_old) :
            LET n == IntOf(pre_old[k].id) IN
            n \in IdsOf(entries_new) =>
                LET new == Find(entries_new, n)
                    out == Find(entries, n)
                IN /\ out.hail_core = pre_old[k].hail_core
                   /\ out.storm_history = pre_old[k].storm_history
                   /\ out.id = new.id /\ out.num_gates = new.num_gates
                   /\ out.centroid = new.centroid /\ out.max_refl = new.max_refl
                   /\ out.bbox = new.bbox
\* update_cells has continued a cell whose new hail core and new boundary differ
\* from the ones of the existing record
C28_Witness ==
    /\ tpc = "append"
    /\ 5 \in Continued
    /\ Find(entries_new, 5).hail_core # Find(pre_old, 5).hail_core
    /\ Find(entries, 5).bbox # Find(pre_old, 5).bbox
    /\ Find(entries, 5).hail_core = Find(pre_old, 5).hail_core

\* the raster and the candidate regions: the inputs a frame cannot do without
FrameSources == {"composite", "probsevere"}
\* the input of the frame of this run, its latest file, is missing or cannot be opened
Unavailable(s) ==
    \/ ~dirs[s].exists
    \/ dirs[s].files = <<>>
    \/ ~dirs[s].files[Len(dirs[s].files)].ok
\* C22: frame-granular cancellation: if the raster or the candidate-region input
\* of a frame is missing or unreadable, the detection pass for that frame is
\* skipped as a whole: the persisted Cell Record set is left exactly as it was
\* before the pass (nothing partial is written) and the scheduler goes on (the
\* pipeline process can be joined).
C22_FrameCancellation ==
    (ppc = "done" /\ \E s \in FrameSources : Unavailable(s)) =>
        /\ json_output = json_before
        /\ ENABLED JoinPipeline

\* C23: within one pipeline run, the detection pass begins only after every
\* download worker of that run has finished, by success or by failure; the failure
\* of one source's worker neither cancels nor blocks the workers of the other
\* sources.
C23_DownloadsBeforeDetection ==
    /\ ppc = "done" => \A s \in Sources : worker[s] \in {"finished", "failed"}
    /\ \A s \in Sources : worker[s] \in {"none", "submitted", "finished", "failed"}
    /\ \A s \in Sources :
          (ppc = "ingest" /\ worker[s] = "submitted") => ENABLED ProcessModifier(s)
\* the detection pass ran to its end after one worker failed and the others,
\* the workers of the raster and of the regions, downloaded the file of this run
C23_Witness ==
    /\ ppc = "done" /\ plog = "completed"
    /\ worker["preciptyp"] = "failed"
    /\ \A s \in FrameSources :
          /\ worker[s] = "finished"
          /\ dirs[s].files # <<>> /\ dirs[s].files[Len(dirs[s].files)].ts = dt

\* C29: the scheduler spawns a pipeline run only when the latest common timestamp
\* is new: once a pipeline has been spawned for a timestamp, no later poll spawns
\* another pipeline for that same timestamp.
C29_SpawnOncePerTimestamp ==
    \A i \in 1..Len(spawned) : \A j \in 1..Len(spawned) :
        i # j => spawned[i] # spawned[j]

\* the minutes of the past hour for which every modifier has a file
CommonToAll ==
    {t \in (now - Hour)..now : \A m \in Modifiers : t \in remote[m]}
\* C30: latest_common_minute_1h returns the latest minute-precision timestamp,
\* within the past hour, for which every one of the given modifiers has a file, and
\* returns None when no minute is common to all of the modifiers.
C30_LatestCommonMinute ==
    spc = "returned" =>
        latest_common = (IF CommonToAll = {} THEN None ELSE SetMax(CommonToAll))

====
